---- MODULE Spec2Model ----
(***************************************************************************)
(* Model of the map-chat front end: the MapApp component (map_app.ts, kept *)
(* as src/unnamed/part_000) and the send handler installed by index.tsx.   *)
(*                                                                         *)
(* Strings are sequences of tokens (a token is a short TLA+ string), so    *)
(* that concatenation, trim() and marked.parse() are computed, not assumed.*)
(* The model starts after construction: the DOMContentLoaded callback of   *)
(* index.tsx has installed sendMessageHandler, the element is connected,   *)
(* and firstUpdated() is about to call loadMap().                          *)
(*                                                                         *)
(* Every `await` of the source is a suspension point: the code between two *)
(* awaits is one atomic action.  A response chunk is modelled with one     *)
(* candidate holding one part.                                             *)
(***************************************************************************)
EXTENDS Integers, Sequences, FiniteSets, TLC

(* ------------------------------ bounds -------------------------------- *)
MaxSends == 2       \* send operations admitted in one run
MaxFragments == 2   \* parts the response streams of one run yield in total
MaxQueries == 2     \* map-query notifications in one run

(* ------------------------------ strings ------------------------------- *)
SPACE == " "

RECURSIVE TrimLeft(_)
TrimLeft(s) == IF s # <<>> /\ Head(s) = SPACE THEN TrimLeft(Tail(s)) ELSE s

RECURSIVE TrimRight(_)
TrimRight(s) ==
  IF s # <<>> /\ s[Len(s)] = SPACE THEN TrimRight(SubSeq(s, 1, Len(s) - 1)) ELSE s

\* String.prototype.trim
Trim(s) == TrimRight(TrimLeft(s))

\* marked.parse on plain prose: blank input renders to the empty string, any
\* other input to one paragraph of the trimmed text followed by a newline.
Render(s) ==
  IF Trim(s) = <<>> THEN <<>> ELSE <<"<p>">> \o Trim(s) \o <<"</p>", "\n">>

PLACEHOLDER == <<"...">>

(* ------------------------------ inputs -------------------------------- *)
\* chatState is one of "IDLE", "GENERATING", "THINKING", "EXECUTING" (enum
\* ChatState)

\* EXAMPLE_PROMPTS, one prompt standing for the seven
EXAMPLE_PROMPTS == {<<"Show", SPACE, "me">>}

\* what the user may type into #messageInput
TypedInputs == {<<>>, <<SPACE>>, <<"hi", SPACE>>}

\* parts of a response chunk: functionCall present or not, thought content
\* ("" when absent), display text ("" when absent)
Parts ==
  { [functionCall |-> TRUE,  thought |-> <<>>,      text |-> <<>>],
    [functionCall |-> FALSE, thought |-> <<"t">>,   text |-> <<>>],
    [functionCall |-> FALSE, thought |-> <<>>,      text |-> <<"x">>],
    [functionCall |-> TRUE,  thought |-> <<>>,      text |-> <<"y">>],
    [functionCall |-> FALSE, thought |-> <<"t">>,   text |-> <<"x">>] }

\* values thrown by the GenAI SDK or the stream: an Error with a message, or
\* a value that is not an Error
Faults ==
  { [isError |-> TRUE,  message |-> <<"boom">>],
    [isError |-> FALSE, message |-> <<>>] }

\* what marked.parse throws when it fails
RenderFault == [isError |-> TRUE, message |-> <<"boom">>]

\* values USER_PROVIDED_GOOGLE_MAPS_API_KEY may be given: none, the template's
\* placeholder, a key
ApiKeys == {<<>>, <<"REPLACE", "_WITH_KEY">>, <<"AIza", "SyAJ">>}

\* the params of a map-query notification: a location, an origin with a
\* destination, or an origin alone
QueryParams ==
  { [location |-> "Paris", origin |-> "",      destination |-> ""],
    [location |-> "",      origin |-> "Tokyo", destination |-> "Kyoto"],
    [location |-> "",      origin |-> "Tokyo", destination |-> ""] }

\* what the map provider answers: status OK with a result, status OK without
\* one, another status
Outcomes == {"OK", "OK_EMPTY", "ZERO_RESULTS"}

KEY_MISSING == "API Key missing. Please set USER_PROVIDED_GOOGLE_MAPS_API_KEY in map_app.ts."
LOAD_FAILED == "Could not load Google Maps."

GENERIC_ERROR == <<"An error occurred while processing your request.">>

VARIABLES
  chatState,      \* MapApp.chatState
  inputMessage,   \* MapApp.inputMessage
  messages,       \* MapApp.messages: the transcript, a sequence of turns
  sends,          \* the send operations admitted so far, in admission order
  apiKey,         \* USER_PROVIDED_GOOGLE_MAPS_API_KEY, fixed for a run
  loadPc,         \* where loadMap is: "notStarted", "loading" or "done"
  mapInitialized, \* MapApp.mapInitialized
  mapError,       \* MapApp.mapError
  map,            \* MapApp.map is set
  geocoder,       \* MapApp.geocoder is set
  directionsService, \* MapApp.directionsService is set
  marker,         \* MapApp.marker
  routePolyline,  \* MapApp.routePolyline
  originMarker,   \* MapApp.originMarker
  destinationMarker, \* MapApp.destinationMarker
  attached,       \* the elements that are children of the map element
  camera,         \* the query whose flyCameraTo came last, 0 before any
  pending,        \* geocode and route requests whose callback has not run
  nq              \* map-query notifications received so far

chatVars == <<chatState, inputMessage, messages, sends>>

mapVars == <<apiKey, loadPc, mapInitialized, mapError, map, geocoder,
             directionsService, marker, routePolyline, originMarker,
             destinationMarker, attached, camera, pending, nq>>

vars == <<chatState, inputMessage, messages, sends, apiKey, loadPc,
          mapInitialized, mapError, map, geocoder, directionsService, marker,
          routePolyline, originMarker, destinationMarker, attached, camera,
          pending, nq>>

(* ----------------------------- transcript ----------------------------- *)
\* A turn is the <div class="turn role-..."> built by addMessage: `hidden` is
\* the 'hidden' class of its <details class="thinking">, `thinking` the
\* innerHTML of the thinking element, `text` the innerHTML of the text
\* element.  `owner` (history) is the send that created the turn.
Turn(role, message, owner) ==
  [role |-> role, hidden |-> TRUE, thinking |-> <<>>, text |-> message,
   owner |-> owner]

\* MapApp.addMessage: this.messages = [...this.messages, div]
AddMessage(msgs, role, message, owner) == Append(msgs, Turn(role, message, owner))

\* the guard of MapApp.sendMessageAction
Admitted(cs, input) == cs = "IDLE" /\ Trim(input) # <<>>

\* thoughtAccumulator += ' ' + part.thought
AppendThought(acc, part) == acc \o <<SPACE>> \o part.thought

\* a mutation of AppendText: the new text goes in front
PrependText(acc, part) == part.text \o acc

\* newCode += part.text
AppendText(acc, part) == acc \o part.text

\* finalErrorMessage of the catch branch
FinalErrorMessage(e) == IF e.isError THEN e.message ELSE GENERIC_ERROR

\* `Error: ${finalErrorMessage}`
ErrorText(m) == <<"Error: ">> \o m

\* the statements after the inner try/catch: hide the thinking pane when no
\* thought was accumulated, clear the text when it is the placeholder or blank
PostProcess(turn, thoughtAccumulator) ==
  [turn EXCEPT
     !.hidden = IF thoughtAccumulator = <<>> THEN TRUE ELSE @,
     !.text = IF Trim(@) = PLACEHOLDER \/ Len(Trim(@)) = 0 THEN <<>> ELSE @]

\* the finally block: mapApp.setChatState(ChatState.IDLE)
FinallyState(cs) == "IDLE"

(* ------------------------------- state -------------------------------- *)
\* a mutation of NewSend: the text accumulator is shared by the sends, the new
\* send starts from what the last one accumulated
NewSendSharedAccumulator(msg, userIdx) ==
  [pc |-> "renderUser", msg |-> msg, userIdx |-> userIdx, asstIdx |-> 0,
   errIdx |-> 0, errMsg |-> <<>>,
   newCode |-> IF sends = <<>> THEN <<>> ELSE sends[Len(sends)].newCode,
   thoughtAccumulator |-> <<>>, received |-> <<>>, fault |-> FALSE]

\* One send operation: a call of sendMessageAction that passed its guard,
\* with the locals of sendMessageAction and of sendMessageHandler.
\*   pc: the await the operation is suspended at, or how it ended
\*   received, fault (history): the parts the stream yielded so far, and
\*   whether a fault was raised while obtaining or consuming the stream
NewSend(msg, userIdx) ==
  [pc |-> "renderUser", msg |-> msg, userIdx |-> userIdx, asstIdx |-> 0,
   errIdx |-> 0, errMsg |-> <<>>, newCode |-> <<>>,
   thoughtAccumulator |-> <<>>, received |-> <<>>, fault |-> FALSE]

RECURSIVE TotalReceived(_)
TotalReceived(ss) ==
  IF ss = <<>> THEN 0 ELSE Len(Head(ss).received) + TotalReceived(Tail(ss))

\* the streams may still yield a part
MayYield == TotalReceived(sends) < MaxFragments

InHandler == {"awaitStream", "nextChunk", "renderThought", "renderText", "renderError"}
HandlerEnded == {"returned", "threw", "done"}

\* a map element: the Marker3DElement or Polyline3DElement created for query q
Element(kind, q) == [kind |-> kind, q |-> q]
Undefined == Element("undefined", 0)

Init ==
  /\ chatState = "IDLE"
  /\ inputMessage \in EXAMPLE_PROMPTS
  /\ messages = <<>>
  /\ sends = <<>>
  /\ apiKey \in ApiKeys
  /\ loadPc = "notStarted"
  /\ mapInitialized = FALSE
  /\ mapError = ""
  /\ map = FALSE
  /\ geocoder = FALSE
  /\ directionsService = FALSE
  /\ marker = Undefined
  /\ routePolyline = Undefined
  /\ originMarker = Undefined
  /\ destinationMarker = Undefined
  /\ attached = {}
  /\ camera = 0
  /\ pending = {}
  /\ nq = 0

(* ------------------------------ the user ------------------------------ *)
\* @input on #messageInput; typing after the last send of the run is left out
TypeInput(v) ==
  /\ Len(sends) < MaxSends
  /\ inputMessage # v
  /\ inputMessage' = v
  /\ UNCHANGED <<chatState, messages, sends>>
  /\ UNCHANGED mapVars

\* MapApp.sendMessageAction up to `await marked.parse(msg)`; a call that
\* fails the guard returns at once and changes nothing
SendMessageAction ==
  /\ Len(sends) < MaxSends
  /\ Admitted(chatState, inputMessage)
  /\ inputMessage' = <<>>
  /\ messages' = AddMessage(messages, "user", PLACEHOLDER, Len(sends) + 1)
  /\ sends' = Append(sends, NewSend(Trim(inputMessage), Len(messages) + 1))
  /\ UNCHANGED chatState
  /\ UNCHANGED mapVars

\* marked.parse(msg) resolved: the user turn shows the rendered text and
\* sendMessageHandler runs up to `await aiChat.sendMessageStream(...)`:
\* addMessage('assistant', ''), setChatState(GENERATING), placeholder text
UserRendered(s) ==
  /\ sends[s].pc = "renderUser"
  /\ LET shown == [messages EXCEPT ![sends[s].userIdx].text = Render(sends[s].msg)]
         withAsst == AddMessage(shown, "assistant", <<>>, s)
     IN /\ messages' = [withAsst EXCEPT ![Len(withAsst)].text = PLACEHOLDER]
        /\ sends' = [sends EXCEPT ![s].pc = "awaitStream",
                                  ![s].asstIdx = Len(withAsst)]
  /\ chatState' = "GENERATING"
  /\ UNCHANGED inputMessage
  /\ UNCHANGED mapVars

\* marked.parse(msg) rejected: sendMessageAction rejects, the handler never runs
UserRenderFailed(s) ==
  /\ sends[s].pc = "renderUser"
  /\ sends' = [sends EXCEPT ![s].pc = "rejected"]
  /\ UNCHANGED <<chatState, inputMessage, messages>>
  /\ UNCHANGED mapVars

(* --------------------------- the send handler ------------------------- *)
\* the catch branch up to `await marked.parse(...)`: addMessage('error', '')
Catch(s, e, cs) ==
  /\ messages' = AddMessage(messages, "error", <<>>, s)
  /\ sends' = [sends EXCEPT ![s].pc = "renderError",
                            ![s].errIdx = Len(messages) + 1,
                            ![s].errMsg = FinalErrorMessage(e),
                            ![s].fault = TRUE]
  /\ chatState' = cs
  /\ UNCHANGED inputMessage
  /\ UNCHANGED mapVars

\* the handler leaves the inner try/catch normally: post-processing, finally
Return(s, msgs) ==
  /\ messages' = [msgs EXCEPT ![sends[s].asstIdx] =
                    PostProcess(@, sends[s].thoughtAccumulator)]
  /\ sends' = [sends EXCEPT ![s].pc = "returned"]
  /\ chatState' = FinallyState(chatState)
  /\ UNCHANGED inputMessage
  /\ UNCHANGED mapVars

\* aiChat.sendMessageStream resolved with a stream
StreamObtained(s) ==
  /\ sends[s].pc = "awaitStream"
  /\ sends' = [sends EXCEPT ![s].pc = "nextChunk"]
  /\ UNCHANGED <<chatState, inputMessage, messages>>
  /\ UNCHANGED mapVars

\* aiChat.sendMessageStream rejected
StreamRefused(s, e) ==
  /\ sends[s].pc = "awaitStream"
  /\ Catch(s, e, chatState)

\* the stream yields a chunk whose part carries thought content
ThoughtPart(s, part) ==
  /\ sends[s].pc = "nextChunk"
  /\ MayYield
  /\ part.thought # <<>>
  /\ chatState' = "THINKING"
  /\ sends' = [sends EXCEPT
       ![s].pc = "renderThought",
       ![s].thoughtAccumulator = AppendThought(@, part),
       ![s].received = Append(@, part)]
  /\ UNCHANGED <<inputMessage, messages>>
  /\ UNCHANGED mapVars

\* the stream yields a chunk whose part carries no thought but display text
TextPart(s, part) ==
  /\ sends[s].pc = "nextChunk"
  /\ MayYield
  /\ part.thought = <<>> /\ part.text # <<>>
  /\ chatState' = "EXECUTING"
  /\ sends' = [sends EXCEPT
       ![s].pc = "renderText",
       ![s].newCode = AppendText(@, part),
       ![s].received = Append(@, part)]
  /\ UNCHANGED <<inputMessage, messages>>
  /\ UNCHANGED mapVars

\* the stream yields a chunk whose part carries neither: a function call is
\* logged, nothing is shown
OtherPart(s, part) ==
  /\ sends[s].pc = "nextChunk"
  /\ MayYield
  /\ part.thought = <<>> /\ part.text = <<>>
  /\ sends' = [sends EXCEPT ![s].received = Append(@, part)]
  /\ UNCHANGED <<chatState, inputMessage, messages>>
  /\ UNCHANGED mapVars

\* marked.parse(thoughtAccumulator) resolved: thinking pane filled and shown
ThoughtRendered(s) ==
  /\ sends[s].pc = "renderThought"
  /\ messages' = [messages EXCEPT
       ![sends[s].asstIdx].thinking = Render(sends[s].thoughtAccumulator),
       ![sends[s].asstIdx].hidden = FALSE]
  /\ sends' = [sends EXCEPT ![s].pc = "nextChunk"]
  /\ UNCHANGED <<chatState, inputMessage>>
  /\ UNCHANGED mapVars

\* marked.parse(newCode) resolved: display text replaced
TextRendered(s) ==
  /\ sends[s].pc = "renderText"
  /\ messages' = [messages EXCEPT
       ![sends[s].asstIdx].text = Render(sends[s].newCode)]
  /\ sends' = [sends EXCEPT ![s].pc = "nextChunk"]
  /\ UNCHANGED <<chatState, inputMessage>>
  /\ UNCHANGED mapVars

\* marked.parse rejected while rendering a part
PartRenderFailed(s) ==
  /\ sends[s].pc \in {"renderThought", "renderText"}
  /\ Catch(s, RenderFault, chatState)

\* the stream throws instead of yielding
StreamFailed(s, e) ==
  /\ sends[s].pc = "nextChunk"
  /\ Catch(s, e, chatState)

\* the stream is exhausted
StreamEnded(s) ==
  /\ sends[s].pc = "nextChunk"
  /\ Return(s, messages)

\* marked.parse of the error text resolved: the error turn shows it
ErrorRendered(s) ==
  /\ sends[s].pc = "renderError"
  /\ Return(s, [messages EXCEPT
                  ![sends[s].errIdx].text = Render(ErrorText(sends[s].errMsg))])

\* a mutation of ErrorRenderFailed: the state is reset at the end of the try
\* block, not in a finally block
ErrorRenderEscapes(s) ==
  /\ sends[s].pc = "renderError"
  /\ sends' = [sends EXCEPT ![s].pc = "threw"]
  /\ UNCHANGED <<chatState, inputMessage, messages>>
  /\ UNCHANGED mapVars

\* marked.parse of the error text rejected: only the finally block runs and
\* the rejection leaves the handler
ErrorRenderFailed(s) ==
  /\ sends[s].pc = "renderError"
  /\ sends' = [sends EXCEPT ![s].pc = "threw"]
  /\ chatState' = FinallyState(chatState)
  /\ UNCHANGED <<inputMessage, messages>>
  /\ UNCHANGED mapVars

\* sendMessageAction resumes after the handler returned: setNewRandomPrompt
ActionResumed(s) ==
  /\ sends[s].pc = "returned"
  /\ sends' = [sends EXCEPT ![s].pc = "done"]
  /\ inputMessage' \in EXAMPLE_PROMPTS
  /\ UNCHANGED <<chatState, messages>>
  /\ UNCHANGED mapVars

SendIds == 1..Len(sends)

NextChat ==
  \/ \E v \in TypedInputs : TypeInput(v)
  \/ SendMessageAction
  \/ \E s \in SendIds : UserRendered(s)
  \/ \E s \in SendIds : UserRenderFailed(s)
  \/ \E s \in SendIds : StreamObtained(s)
  \/ \E s \in SendIds, e \in Faults : StreamRefused(s, e)
  \/ \E s \in SendIds, part \in Parts : ThoughtPart(s, part)
  \/ \E s \in SendIds, part \in Parts : TextPart(s, part)
  \/ \E s \in SendIds, part \in Parts : OtherPart(s, part)
  \/ \E s \in SendIds : ThoughtRendered(s)
  \/ \E s \in SendIds : TextRendered(s)
  \/ \E s \in SendIds : PartRenderFailed(s)
  \/ \E s \in SendIds, e \in Faults : StreamFailed(s, e)
  \/ \E s \in SendIds : StreamEnded(s)
  \/ \E s \in SendIds : ErrorRendered(s)
  \/ \E s \in SendIds : ErrorRenderFailed(s)
  \/ \E s \in SendIds : ActionResumed(s)

(* ------------------------------- the map ------------------------------ *)
\* a mutation of IsApiKeyPlaceholder: only the empty key is recognised
KeyIsEmpty(key) == key = <<>>

\* isApiKeyPlaceholder of loadMap: key === '' || key.includes('REPLACE')
IsApiKeyPlaceholder(key) ==
  key = <<>> \/ \E i \in 1..Len(key) : key[i] = "REPLACE"

\* firstUpdated -> loadMap, up to `await loader.load()`
LoadMap ==
  /\ loadPc = "notStarted"
  /\ IF IsApiKeyPlaceholder(apiKey)
       THEN /\ mapError' = KEY_MISSING
            /\ loadPc' = "done"
       ELSE /\ loadPc' = "loading"
            /\ UNCHANGED mapError
  /\ UNCHANGED <<apiKey, mapInitialized, map, geocoder, directionsService,
                 marker, routePolyline, originMarker, destinationMarker,
                 attached, camera, pending, nq>>
  /\ UNCHANGED chatVars

\* the loader and importLibrary resolved: the library classes and the
\* DirectionsService are kept, initializeMap sets map and geocoder
LoadSucceeded ==
  /\ loadPc = "loading"
  /\ directionsService' = TRUE
  /\ map' = TRUE
  /\ geocoder' = TRUE
  /\ mapInitialized' = TRUE
  /\ loadPc' = "done"
  /\ UNCHANGED <<apiKey, mapError, marker, routePolyline, originMarker,
                 destinationMarker, attached, camera, pending, nq>>
  /\ UNCHANGED chatVars

\* the loader or importLibrary rejected
LoadFailed ==
  /\ loadPc = "loading"
  /\ mapError' = LOAD_FAILED
  /\ loadPc' = "done"
  /\ UNCHANGED <<apiKey, mapInitialized, map, geocoder, directionsService,
                 marker, routePolyline, originMarker, destinationMarker,
                 attached, camera, pending, nq>>
  /\ UNCHANGED chatVars

\* the guards of _handleViewLocation and _handleDirections
CanViewLocation(initialized, gc) == initialized /\ gc
CanRoute(initialized, ds) == initialized /\ ds

\* _clearMapElements: remove() on the four fields, then all four undefined
ClearedAttached ==
  attached \ {marker, routePolyline, originMarker, destinationMarker}

\* a request handed to the provider by query q.  `outcome` is the provider's
\* answer, delivered by the callback; attachedBefore and cameraBefore
\* (history) are the map as it was when handleMapQuery was called, and alone
\* (history) says that no other request was in flight then
Request(kind, q, outcome) ==
  [kind |-> kind, q |-> q, outcome |-> outcome,
   attachedBefore |-> attached, cameraBefore |-> camera,
   alone |-> pending = {}]

\* _handleViewLocation up to the geocode call
ViewLocation ==
  IF CanViewLocation(mapInitialized, geocoder)
    THEN /\ attached' = ClearedAttached
         /\ marker' = Undefined
         /\ routePolyline' = Undefined
         /\ originMarker' = Undefined
         /\ destinationMarker' = Undefined
         /\ \E outcome \in Outcomes :
              pending' = pending \cup {Request("geocode", nq + 1, outcome)}
    ELSE UNCHANGED <<attached, marker, routePolyline, originMarker,
                     destinationMarker, pending>>

\* _handleDirections up to the route call
Directions ==
  IF CanRoute(mapInitialized, directionsService)
    THEN /\ attached' = ClearedAttached
         /\ marker' = Undefined
         /\ routePolyline' = Undefined
         /\ originMarker' = Undefined
         /\ destinationMarker' = Undefined
         /\ \E outcome \in Outcomes :
              pending' = pending \cup {Request("route", nq + 1, outcome)}
    ELSE UNCHANGED <<attached, marker, routePolyline, originMarker,
                     destinationMarker, pending>>

\* MapApp.handleMapQuery, called by the map server's callback
HandleMapQuery(params) ==
  /\ nq < MaxQueries
  /\ nq' = nq + 1
  /\ IF params.location # ""
       THEN ViewLocation
       ELSE IF params.origin # "" /\ params.destination # ""
         THEN Directions
         ELSE UNCHANGED <<attached, marker, routePolyline, originMarker,
                          destinationMarker, pending>>
  /\ UNCHANGED <<apiKey, loadPc, mapInitialized, mapError, map, geocoder,
                 directionsService, camera>>
  /\ UNCHANGED chatVars

\* the callback given to geocoder.geocode
GeocodeCallback(r) ==
  /\ r \in pending /\ r.kind = "geocode"
  /\ pending' = pending \ {r}
  /\ IF r.outcome = "OK" /\ map
       THEN /\ camera' = r.q
            /\ marker' = Element("marker", r.q)
            /\ attached' = attached \cup {Element("marker", r.q)}
       ELSE UNCHANGED <<camera, marker, attached>>
  /\ UNCHANGED <<apiKey, loadPc, mapInitialized, mapError, map, geocoder,
                 directionsService, routePolyline, originMarker,
                 destinationMarker, nq>>
  /\ UNCHANGED chatVars

\* the callback given to directionsService.route
RouteCallback(r) ==
  /\ r \in pending /\ r.kind = "route"
  /\ pending' = pending \ {r}
  /\ IF r.outcome = "OK"
       THEN /\ routePolyline' = Element("polyline", r.q)
            /\ originMarker' = Element("origin", r.q)
            /\ destinationMarker' = Element("destination", r.q)
            /\ attached' = attached \cup {Element("polyline", r.q),
                 Element("origin", r.q), Element("destination", r.q)}
            /\ camera' = r.q
       ELSE UNCHANGED <<routePolyline, originMarker, destinationMarker,
                        attached, camera>>
  /\ UNCHANGED <<apiKey, loadPc, mapInitialized, mapError, map, geocoder,
                 directionsService, marker, nq>>
  /\ UNCHANGED chatVars

NextMap ==
  \/ LoadMap
  \/ LoadSucceeded
  \/ LoadFailed
  \/ \E params \in QueryParams : HandleMapQuery(params)
  \/ \E r \in pending : GeocodeCallback(r)
  \/ \E r \in pending : RouteCallback(r)

Next == NextChat \/ NextMap

\* the whole component
Spec == Init /\ [][Next]_vars

\* the chat alone, with a key as the source has it
InitChat == Init /\ ~IsApiKeyPlaceholder(apiKey)
SpecChat == InitChat /\ [][NextChat]_vars

\* the map alone
SpecMap == Init /\ [][NextMap]_vars

\* the component when the key is missing or a placeholder: firstUpdated runs
\* loadMap before the user or the model can act
PlaceholderKey == apiKey \in {<<>>, <<"REPLACE", "_WITH_KEY">>}
InitDegraded == Init /\ PlaceholderKey
NextDegraded ==
  \/ LoadMap
  \/ /\ loadPc # "notStarted"
     /\ \/ \E params \in QueryParams : HandleMapQuery(params)
        \/ NextChat

SpecDegraded == InitDegraded /\ [][NextDegraded]_vars

(* ------------------------------ properties ---------------------------- *)
\* the sends that have been admitted and whose handler has not ended
Active == {s \in SendIds : sends[s].pc \in {"renderUser"} \cup InHandler}

\* the turns of the transcript that send s created with the given role
TurnsOf(s, role) ==
  {i \in 1..Len(messages) : messages[i].owner = s /\ messages[i].role = role}

\* what the claims say the accumulators hold, computed from the parts received
RECURSIVE AllText(_)
AllText(parts) ==
  IF parts = <<>> THEN <<>> ELSE Head(parts).text \o AllText(Tail(parts))

RECURSIVE DisplayText(_)
DisplayText(parts) ==
  IF parts = <<>> THEN <<>>
  ELSE (IF Head(parts).thought = <<>> THEN Head(parts).text ELSE <<>>)
       \o DisplayText(Tail(parts))

RECURSIVE ThoughtText(_)
ThoughtText(parts) ==
  IF parts = <<>> THEN <<>>
  ELSE (IF Head(parts).thought # <<>>
          THEN <<SPACE>> \o Head(parts).thought ELSE <<>>)
       \o ThoughtText(Tail(parts))

SawThought(s) ==
  \E i \in 1..Len(sends[s].received) : sends[s].received[i].thought # <<>>

\* C1: whenever a send handler finishes, by returning or by throwing, on any
\* path, chatState is IDLE as it finishes.
C1_IdleOnEveryExit ==
  [][\A s \in SendIds :
       (sends[s].pc \in InHandler /\ sends'[s].pc \notin InHandler)
         => chatState' = "IDLE"]_vars

\* C1 witness: a handler ended by a fault raised inside its error branch, and
\* the state is IDLE.
C1_Witness ==
  \E s \in SendIds :
    sends[s].pc = "threw" /\ sends[s].received # <<>> /\ chatState = "IDLE"

\* C2: sends are single-flight: at most one admitted send has not yet ended.
C2_SingleFlight == Cardinality(Active) <= 1

\* C3: when a handler has ended, the thinking pane of its assistant turn is
\* visible if and only if the stream produced a part with thought content.
C3_ThinkingVisibleIffThought ==
  \A s \in SendIds :
    sends[s].pc \in HandlerEnded
      => (~messages[sends[s].asstIdx].hidden <=> SawThought(s))

\* C4: a send whose stream faulted ends with exactly one error turn of its own,
\* after its assistant turn, showing "Error: " and the message, and the fault
\* does not leave the handler.
C4_ErrorTurn ==
  \A s \in SendIds :
    (sends[s].pc \in HandlerEnded /\ sends[s].fault)
      => /\ sends[s].pc # "threw"
         /\ Cardinality(TurnsOf(s, "error")) = 1
         /\ \A i \in TurnsOf(s, "error") :
              /\ i > sends[s].asstIdx
              /\ messages[i].text = Render(ErrorText(sends[s].errMsg))

\* C5 as claimed: after a stream exhausted without fault, the display text is
\* the rendering of the texts of all parts that carry text, in stream order.
C5_AllTextShown ==
  \A s \in SendIds :
    (sends[s].pc \in {"returned", "done"} /\ ~sends[s].fault)
      => messages[sends[s].asstIdx].text = Render(AllText(sends[s].received))

\* C5 as amended: after a stream exhausted without fault, the display text is
\* the rendering of the texts, in stream order, of the parts that carry text
\* and no thought content (with or without a function call), and the thinking
\* pane holds the rendering of the thoughts, each preceded by a space, in
\* stream order.
C5_DisplayTextShown ==
  \A s \in SendIds :
    (sends[s].pc \in {"returned", "done"} /\ ~sends[s].fault)
      => /\ messages[sends[s].asstIdx].text = Render(DisplayText(sends[s].received))
         /\ messages[sends[s].asstIdx].thinking = Render(ThoughtText(sends[s].received))

\* C5 witness: a send ended normally after two different display texts, one of
\* them on a part that also carries a function call.
C5_Witness ==
  \E s \in SendIds :
    /\ sends[s].pc = "done" /\ ~sends[s].fault
    /\ Len(sends[s].received) = 2
    /\ sends[s].received[1].text = <<"y">> /\ sends[s].received[1].functionCall
    /\ sends[s].received[2].text = <<"x">> /\ sends[s].received[2].thought = <<>>
    /\ messages[sends[s].asstIdx].text = <<"<p>", "y", "x", "</p>", "\n">>

\* C6: a query the provider could not resolve leaves the attached elements
\* and the camera as they were before the query, and adds no turn.  Stated
\* for a query that overlaps no other: none in flight when it is made, none
\* made before its callback runs.
C6_NoVisualUpdate ==
  [][\A r \in pending :
       (r \notin pending' /\ r.outcome # "OK" /\ r.alone /\ r.q = nq)
         => /\ attached' = r.attachedBefore
            /\ camera' = r.cameraBefore
            /\ messages' = messages]_vars

\* C7: with a missing or placeholder key, loadMap ends with the key-missing
\* error and the map never initialized; map queries issue no request and
\* change no marker, polyline or camera; and whenever no handler is running
\* the chat is idle.
C7_DegradedMap ==
  PlaceholderKey
    => /\ ~mapInitialized
       /\ loadPc # "notStarted" => (loadPc = "done" /\ mapError = KEY_MISSING)
       /\ pending = {} /\ attached = {} /\ camera = 0
       /\ marker = Undefined /\ routePolyline = Undefined
       /\ originMarker = Undefined /\ destinationMarker = Undefined
       /\ (\A s \in SendIds : sends[s].pc \notin InHandler) => chatState = "IDLE"

\* C7 witness: with a placeholder key, map queries were accepted, and a send
\* that streamed parts ran from idle back to idle.
C7_Witness ==
  /\ PlaceholderKey /\ mapError = KEY_MISSING
  /\ nq = MaxQueries
  /\ chatState = "IDLE"
  /\ \E s \in SendIds : sends[s].pc = "done" /\ sends[s].received # <<>>

\* C8, in every state: each send owns exactly one user turn and, once its
\* handler ran, exactly one assistant turn after it; its accumulators hold
\* what its own stream yielded and nothing else.
C8_OwnTurns ==
  \A s \in SendIds :
    /\ TurnsOf(s, "user") = {sends[s].userIdx}
    /\ TurnsOf(s, "assistant") =
         IF sends[s].pc \in {"renderUser", "rejected"} THEN {} ELSE {sends[s].asstIdx}
    /\ sends[s].pc \notin {"renderUser", "rejected"} => sends[s].userIdx < sends[s].asstIdx
    /\ sends[s].newCode = DisplayText(sends[s].received)
    /\ sends[s].thoughtAccumulator = ThoughtText(sends[s].received)
    /\ sends[s].pc \notin {"renderUser", "rejected"} =>
         /\ messages[sends[s].asstIdx].text \in
              {PLACEHOLDER, <<>>} \cup
              {Render(DisplayText(SubSeq(sends[s].received, 1, k))) :
                 k \in 0..Len(sends[s].received)}
         /\ messages[sends[s].asstIdx].thinking \in
              {Render(ThoughtText(SubSeq(sends[s].received, 1, k))) :
                 k \in 0..Len(sends[s].received)}

\* C8, in every step: the transcript only grows at its end, no turn changes
\* role or owner, and the turns of a send that has ended are not rewritten.
C8_AppendOnly ==
  /\ Len(messages') >= Len(messages)
  /\ \A i \in 1..Len(messages) :
       /\ messages'[i].role = messages[i].role
       /\ messages'[i].owner = messages[i].owner
       /\ sends[messages[i].owner].pc \in HandlerEnded \cup {"rejected"}
            => messages'[i] = messages[i]

C9_Transitions ==
  [][chatState' # chatState =>
       \/ chatState' = "GENERATING" /\ chatState = "IDLE"
       \/ /\ chatState' \in {"THINKING", "EXECUTING"}
          /\ chatState \in {"GENERATING", "THINKING", "EXECUTING"}
       \/ /\ chatState' = "IDLE"
          /\ \E s \in SendIds :
               sends[s].pc \in InHandler /\ sends'[s].pc \notin InHandler]_vars

\* C10: every element attached to the map is the one a field refers to, so
\* the next _clearMapElements removes it.
C10_AttachedAreReferenced ==
  attached \subseteq {marker, routePolyline, originMarker, destinationMarker}

====
